---- MODULE Spec2Model ----
(***************************************************************************)
(* A model of the heap-dump record decoders of hdump (src/main.go).       *)
(*                                                                         *)
(* The byte source is a sequence of bytes and a read position.  A uint64   *)
(* is kept as its ten base-128 limbs, least significant first (limb 10    *)
(* holds bit 63 alone), so that every 64-bit value, 2^63 and 2^64-1       *)
(* included, is representable and the uvarint coding is computed limb by   *)
(* limb as encoding/binary computes it.  A Go int is kept as its 64-bit   *)
(* two's-complement pattern in the same limbs; its width (32 or 64 bits)   *)
(* is a property of the build.                                             *)
(***************************************************************************)
EXTENDS Integers, Sequences, FiniteSets, TLC

VARIABLES
    intSize,   \* width of Go's int in this build: 32 or 64
    mode,      \* the operation the caller runs on the source
    want,      \* the value whose encoding the source was cut from
    src,       \* the bytes the source supplies
    pos,       \* number of bytes consumed from the source
    pc,        \* "ready" | "done", and the framer's Start/Framed/Done/Error
    ret,       \* the value returned by the operation
    err,       \* the error returned by the operation
    out        \* the records the framer has pushed to its consumer

vars == <<intSize, mode, want, src, pos, pc, ret, err, out>>

----------------------------------------------------------------------------
(* Bounds of the model.                                                    *)

MaxStrLen == 2      \* longest short payload / text drawn
MaxFields == 2      \* longest field list drawn
MaxTrail == 1       \* bytes that may follow an encoding in the source
MaxRecords == 2     \* records in a framed stream

----------------------------------------------------------------------------
(* uint64 as limbs.                                                        *)

\* binary.MaxVarintLen64: the bytes of the longest uvarint.
MaxVarintLen64 == 10

\* The uint64 with value n, for 0 <= n < 2^31.
U(n) ==
    <<n % 128, (n \div 128) % 128, (n \div 16384) % 128,
      (n \div 2097152) % 128, (n \div 268435456) % 128, 0, 0, 0, 0, 0>>

Zero == U(0)
One == U(1)
Bit63 == <<0, 0, 0, 0, 0, 0, 0, 0, 0, 1>>
MaxUint64 == <<127, 127, 127, 127, 127, 127, 127, 127, 127, 1>>

\* x < 2^28: the value fits the model's integers.
Fits(x) == \A i \in 5..MaxVarintLen64 : x[i] = 0
ToNat(x) == x[1] + 128 * x[2] + 16384 * x[3] + 2097152 * x[4]

\* x | uint64(d) << (7*i): limb i+1 receives d; at i = 9 the shift by 63
\* keeps the lowest bit of d only.
OrShift(x, i, d) ==
    [x EXCEPT ![i + 1] = IF i = MaxVarintLen64 - 1 THEN d % 2 ELSE d]

\* Conversion uint64 -> int: the low intSize bits, sign-extended.
ToInt32(x) ==
    LET low == x[5] % 16 IN
    IF low >= 8
    THEN <<x[1], x[2], x[3], x[4], low + 112, 127, 127, 127, 127, 1>>
    ELSE <<x[1], x[2], x[3], x[4], low, 0, 0, 0, 0, 0>>
ToInt(x, bits) == IF bits = 64 THEN x ELSE ToInt32(x)

\* An int is negative when its sign bit is set.
IsNegative(k) == k[MaxVarintLen64] = 1

----------------------------------------------------------------------------
(* Errors.                                                                 *)

Nil == "nil"
EOF == "EOF"
ErrUnexpectedEOF == "unexpected EOF"
ErrOverflow == "binary: varint overflows a 64-bit integer"
ErrInvalid == "invalid heapdump"
Panic == "panic: makeslice: len out of range"

----------------------------------------------------------------------------
(* encoding/binary and io, as the decoders call them.                     *)

\* binary.ReadUvarint: bytes are read one at a time; a byte below 0x80 ends
\* the number.  The source ending inside a number is io.ErrUnexpectedEOF,
\* before its first byte io.EOF.
RECURSIVE UvarintLoop(_, _, _, _)
UvarintLoop(s, p, i, x) ==
    IF i = MaxVarintLen64
    THEN [val |-> x, err |-> ErrOverflow, pos |-> p]
    ELSE IF p >= Len(s)
    THEN [val |-> x, err |-> IF i > 0 THEN ErrUnexpectedEOF ELSE EOF, pos |-> p]
    ELSE LET b == s[p + 1] IN
         IF b < 128
         THEN IF i = MaxVarintLen64 - 1 /\ b > 1
              THEN [val |-> x, err |-> ErrOverflow, pos |-> p + 1]
              ELSE [val |-> OrShift(x, i, b), err |-> Nil, pos |-> p + 1]
         ELSE UvarintLoop(s, p + 1, i + 1, OrShift(x, i, b % 128))

ReadUvarint(s, p) == UvarintLoop(s, p, 0, Zero)

\* io.ReadFull into a buffer of n bytes.
ReadFull(s, p, n) ==
    IF n = 0
    THEN [buf |-> <<>>, err |-> Nil, pos |-> p]
    ELSE IF Len(s) - p >= n
    THEN [buf |-> SubSeq(s, p + 1, p + n), err |-> Nil, pos |-> p + n]
    ELSE [buf |-> SubSeq(s, p + 1, Len(s)),
          err |-> IF p >= Len(s) THEN EOF ELSE ErrUnexpectedEOF,
          pos |-> Len(s)]

\* make([]byte, n) panics when n exceeds what the build can allocate:
\* 2^48 bytes with a 64-bit int, 2^31 with a 32-bit int.
TooBig(x, bits) ==
    IF bits = 64
    THEN x[7] >= 64 \/ \E i \in 8..MaxVarintLen64 : x[i] # 0
    ELSE x[5] >= 8 \/ \E i \in 6..MaxVarintLen64 : x[i] # 0

----------------------------------------------------------------------------
(* The decoders of src/main.go.  Each takes the source and the position    *)
(* and returns the value, the error and the new position.                  *)

header == <<103, 111, 49, 46, 52, 32, 104, 101, 97, 112, 32, 100, 117, 109, 112, 10>>

\* Faulty variant of readHeader: the last byte of the magic is not compared.
readHeader_ComparesPrefix(s, p) ==
    LET f == ReadFull(s, p, Len(header)) IN
    IF f.err # Nil
    THEN [err |-> Nil, pos |-> f.pos]
    ELSE IF SubSeq(header, 1, 15) # SubSeq(f.buf, 1, 15)
    THEN [err |-> ErrInvalid, pos |-> f.pos]
    ELSE [err |-> Nil, pos |-> f.pos]

\* readHeader.  The source is read as an io.Reader; a failed read of the 16
\* bytes returns nil.
readHeader(s, p) ==
    LET f == ReadFull(s, p, Len(header)) IN
    IF f.err # Nil
    THEN [err |-> Nil, pos |-> f.pos]
    ELSE IF header # f.buf
    THEN [err |-> ErrInvalid, pos |-> f.pos]
    ELSE [err |-> Nil, pos |-> f.pos]

\* Faulty variant of readString: the buffer is one byte too long.
readString_ReadsOneMore(s, p, bits) ==
    LET n == ReadUvarint(s, p) IN
    IF n.err # Nil
    THEN [val |-> <<>>, err |-> n.err, pos |-> n.pos]
    ELSE IF TooBig(n.val, bits)
    THEN [val |-> <<>>, err |-> Panic, pos |-> n.pos]
    ELSE IF ~Fits(n.val)
    THEN [val |-> <<>>,
          err |-> IF n.pos >= Len(s) THEN EOF ELSE ErrUnexpectedEOF,
          pos |-> Len(s)]
    ELSE LET f == ReadFull(s, n.pos, ToNat(n.val) + 1) IN
         IF f.err # Nil /\ Len(f.buf) < ToNat(n.val)
         THEN [val |-> <<>>, err |-> f.err, pos |-> f.pos]
         ELSE [val |-> SubSeq(f.buf, 1, ToNat(n.val)), err |-> Nil, pos |-> f.pos]

readString(s, p, bits) ==
    LET n == ReadUvarint(s, p) IN
    IF n.err # Nil
    THEN [val |-> <<>>, err |-> n.err, pos |-> n.pos]
    ELSE IF TooBig(n.val, bits)
    THEN [val |-> <<>>, err |-> Panic, pos |-> n.pos]
    ELSE IF ~Fits(n.val)
    THEN [val |-> <<>>,
          err |-> IF n.pos >= Len(s) THEN EOF ELSE ErrUnexpectedEOF,
          pos |-> Len(s)]
    ELSE LET f == ReadFull(s, n.pos, ToNat(n.val)) IN
         IF f.err # Nil
         THEN [val |-> <<>>, err |-> f.err, pos |-> f.pos]
         ELSE [val |-> f.buf, err |-> Nil, pos |-> f.pos]


\* A slice of fields; a nil slice is not an empty one.
NilSlice == [nil |-> TRUE, elems |-> <<>>]
Slice(fs) == [nil |-> FALSE, elems |-> fs]

fieldKindEol == 0
fieldKindPtr == 1
fieldKindIface == 2
fieldKindEface == 3

RECURSIVE FieldlistLoop(_, _, _, _)
FieldlistLoop(s, p, fields, bits) ==
    LET t == ReadUvarint(s, p) IN
    IF t.err # Nil
    THEN [val |-> NilSlice, err |-> t.err, pos |-> t.pos]
    ELSE IF ToInt(t.val, bits) = U(fieldKindEol)
    THEN [val |-> Slice(fields), err |-> Nil, pos |-> t.pos]
    ELSE LET v == ReadUvarint(s, t.pos) IN
         IF v.err # Nil
         THEN [val |-> NilSlice, err |-> v.err, pos |-> v.pos]
         ELSE FieldlistLoop(s, v.pos,
                  Append(fields, [kind |-> ToInt(t.val, bits), ptr |-> v.val]),
                  bits)

Reverse(q) == [i \in 1..Len(q) |-> q[Len(q) + 1 - i]]

\* Faulty variant of readFieldlist: fields are prepended, not appended.
readFieldlist_Prepends(s, p, bits) ==
    LET r == FieldlistLoop(s, p, <<>>, bits) IN
    [r EXCEPT !.val.elems = Reverse(@)]

\* Faulty variant of readFieldlist: the end of the source ends the list.
RECURSIVE FieldlistLoop_EofEnds(_, _, _, _)
FieldlistLoop_EofEnds(s, p, fields, bits) ==
    LET t == ReadUvarint(s, p) IN
    IF t.err = EOF
    THEN [val |-> Slice(fields), err |-> Nil, pos |-> t.pos]
    ELSE IF t.err # Nil
    THEN [val |-> NilSlice, err |-> t.err, pos |-> t.pos]
    ELSE IF ToInt(t.val, bits) = U(fieldKindEol)
    THEN [val |-> Slice(fields), err |-> Nil, pos |-> t.pos]
    ELSE LET v == ReadUvarint(s, t.pos) IN
         IF v.err # Nil
         THEN [val |-> NilSlice, err |-> v.err, pos |-> v.pos]
         ELSE FieldlistLoop_EofEnds(s, v.pos,
                  Append(fields, [kind |-> ToInt(t.val, bits), ptr |-> v.val]),
                  bits)

readFieldlist_EofEndsList(s, p, bits) == FieldlistLoop_EofEnds(s, p, <<>>, bits)

readFieldlist(s, p, bits) == FieldlistLoop(s, p, <<>>, bits)

\* A nil pointer, and the return of a decoder that failed at read r.
NilPtr == [nil |-> TRUE]
Fail(r) == [val |-> NilPtr, err |-> r.err, pos |-> r.pos]

readObject(s, p, bits) ==
    LET addr == ReadUvarint(s, p) IN
    IF addr.err # Nil THEN Fail(addr) ELSE
    LET contents == readString(s, addr.pos, bits) IN
    IF contents.err # Nil THEN Fail(contents) ELSE
    LET fields == readFieldlist(s, contents.pos, bits) IN
    IF fields.err # Nil THEN Fail(fields) ELSE
    [val |-> [nil |-> FALSE, addr |-> addr.val, contents |-> contents.val,
              fields |-> fields.val],
     err |-> Nil, pos |-> fields.pos]

readOtherRoot(s, p, bits) ==
    LET descr == readString(s, p, bits) IN
    IF descr.err # Nil THEN Fail(descr) ELSE
    LET ptr == ReadUvarint(s, descr.pos) IN
    IF ptr.err # Nil THEN Fail(ptr) ELSE
    [val |-> [nil |-> FALSE, descr |-> descr.val, ptr |-> ptr.val],
     err |-> Nil, pos |-> ptr.pos]

\* Faulty variant of readType: isPtr is true on raw value 1 only.
readType_PtrIsOne(s, p, bits) ==
    LET addr == ReadUvarint(s, p) IN
    IF addr.err # Nil THEN Fail(addr) ELSE
    LET size == ReadUvarint(s, addr.pos) IN
    IF size.err # Nil THEN Fail(size) ELSE
    LET name == readString(s, size.pos, bits) IN
    IF name.err # Nil THEN Fail(name) ELSE
    LET isptr == ReadUvarint(s, name.pos) IN
    IF isptr.err # Nil THEN Fail(isptr) ELSE
    [val |-> [nil |-> FALSE, addr |-> addr.val, size |-> size.val,
              name |-> name.val, isPtr |-> (isptr.val = One)],
     err |-> Nil, pos |-> isptr.pos]

\* Faulty variant of readType: size is read before addr.
readType_SizeFirst(s, p, bits) ==
    LET size == ReadUvarint(s, p) IN
    IF size.err # Nil THEN Fail(size) ELSE
    LET addr == ReadUvarint(s, size.pos) IN
    IF addr.err # Nil THEN Fail(addr) ELSE
    LET name == readString(s, addr.pos, bits) IN
    IF name.err # Nil THEN Fail(name) ELSE
    LET isptr == ReadUvarint(s, name.pos) IN
    IF isptr.err # Nil THEN Fail(isptr) ELSE
    [val |-> [nil |-> FALSE, addr |-> addr.val, size |-> size.val,
              name |-> name.val, isPtr |-> (isptr.val # Zero)],
     err |-> Nil, pos |-> isptr.pos]

readType(s, p, bits) ==
    LET addr == ReadUvarint(s, p) IN
    IF addr.err # Nil THEN Fail(addr) ELSE
    LET size == ReadUvarint(s, addr.pos) IN
    IF size.err # Nil THEN Fail(size) ELSE
    LET name == readString(s, size.pos, bits) IN
    IF name.err # Nil THEN Fail(name) ELSE
    LET isptr == ReadUvarint(s, name.pos) IN
    IF isptr.err # Nil THEN Fail(isptr) ELSE
    [val |-> [nil |-> FALSE, addr |-> addr.val, size |-> size.val,
              name |-> name.val, isPtr |-> (isptr.val # Zero)],
     err |-> Nil, pos |-> isptr.pos]

statusIdle == 0
statusRunnable == 1
statusSyscall == 2
statusWaiting == 3

\* time.Second, in nanoseconds.
Second == 1000000000

\* Bit k (0..63) of a uint64, and the uint64 with bit k added to q.
Bit(x, k) == (x[(k \div 7) + 1] \div (2 ^ (k % 7))) % 2
SetBit(q, k) == [q EXCEPT ![(k \div 7) + 1] = @ + 2 ^ (k % 7)]

\* x / d and x % d for a divisor d <= 2^30, by binary long division from
\* bit k down: the remainder stays below 2 * d.
RECURSIVE DivMod(_, _, _, _, _)
DivMod(x, d, k, q, r) ==
    LET r2 == 2 * r + Bit(x, k) IN
    IF r2 >= d
    THEN IF k = 0
         THEN [quo |-> SetBit(q, k), rem |-> r2 - d]
         ELSE DivMod(x, d, k - 1, SetBit(q, k), r2 - d)
    ELSE IF k = 0
         THEN [quo |-> q, rem |-> r2]
         ELSE DivMod(x, d, k - 1, q, r2)

\* time.Unix(started/time.Second, started%time.Second): whole seconds and
\* the nanoseconds left.
Unix(started) ==
    LET dm == DivMod(started, Second, 63, Zero, 0) IN
    [sec |-> dm.quo, nsec |-> dm.rem]


readGoroutine(s, p, bits) ==
    LET addr == ReadUvarint(s, p) IN
    IF addr.err # Nil THEN Fail(addr) ELSE
    LET rframe == ReadUvarint(s, addr.pos) IN
    IF rframe.err # Nil THEN Fail(rframe) ELSE
    LET id == ReadUvarint(s, rframe.pos) IN
    IF id.err # Nil THEN Fail(id) ELSE
    LET stmt == ReadUvarint(s, id.pos) IN
    IF stmt.err # Nil THEN Fail(stmt) ELSE
    LET st == ReadUvarint(s, stmt.pos) IN
    IF st.err # Nil THEN Fail(st) ELSE
    LET b1 == ReadUvarint(s, st.pos) IN
    IF b1.err # Nil THEN Fail(b1) ELSE
    LET b2 == ReadUvarint(s, b1.pos) IN
    IF b2.err # Nil THEN Fail(b2) ELSE
    LET started == ReadUvarint(s, b2.pos) IN
    IF started.err # Nil THEN Fail(started) ELSE
    LET waitReason == readString(s, started.pos, bits) IN
    IF waitReason.err # Nil THEN Fail(waitReason) ELSE
    LET ctx == ReadUvarint(s, waitReason.pos) IN
    IF ctx.err # Nil THEN Fail(ctx) ELSE
    LET MThread == ReadUvarint(s, ctx.pos) IN
    IF MThread.err # Nil THEN Fail(MThread) ELSE
    LET dfer == ReadUvarint(s, MThread.pos) IN
    IF dfer.err # Nil THEN Fail(dfer) ELSE
    LET pnic == ReadUvarint(s, dfer.pos) IN
    IF pnic.err # Nil THEN Fail(pnic) ELSE
    [val |-> [nil |-> FALSE, addr |-> addr.val, rframe |-> rframe.val,
              id |-> id.val, stmt |-> stmt.val,
              status |-> ToInt(st.val, bits),
              isSys |-> (b1.val # One),
              isBackground |-> (b2.val # One),
              started |-> Unix(started.val),
              waitReason |-> waitReason.val,
              ctx |-> ctx.val, MThread |-> MThread.val,
              dfer |-> dfer.val, pnic |-> pnic.val],
     err |-> Nil, pos |-> pnic.pos]

readStackFrame(s, p, bits) ==
    LET ptr == ReadUvarint(s, p) IN
    IF ptr.err # Nil THEN Fail(ptr) ELSE
    LET depth == ReadUvarint(s, ptr.pos) IN
    IF depth.err # Nil THEN Fail(depth) ELSE
    LET childPtr == ReadUvarint(s, depth.pos) IN
    IF childPtr.err # Nil THEN Fail(childPtr) ELSE
    LET content == readString(s, childPtr.pos, bits) IN
    IF content.err # Nil THEN Fail(content) ELSE
    LET startPC == ReadUvarint(s, content.pos) IN
    IF startPC.err # Nil THEN Fail(startPC) ELSE
    LET currentPC == ReadUvarint(s, startPC.pos) IN
    IF currentPC.err # Nil THEN Fail(currentPC) ELSE
    LET continuePC == ReadUvarint(s, currentPC.pos) IN
    IF continuePC.err # Nil THEN Fail(continuePC) ELSE
    LET name == readString(s, continuePC.pos, bits) IN
    IF name.err # Nil THEN Fail(name) ELSE
    LET fields == readFieldlist(s, name.pos, bits) IN
    IF fields.err # Nil THEN Fail(fields) ELSE
    [val |-> [nil |-> FALSE, ptr |-> ptr.val, depth |-> depth.val,
              childPtr |-> childPtr.val, content |-> content.val,
              startPC |-> startPC.val, currentPC |-> currentPC.val,
              continuePC |-> continuePC.val, name |-> name.val,
              fields |-> fields.val],
     err |-> Nil, pos |-> fields.pos]

----------------------------------------------------------------------------
(* The wire format, as a writer of the dump produces it: the encodings     *)
(* the decoders are run on.                                                *)

\* Number of limbs up to the highest non-zero one (at least one).
RECURSIVE Width(_, _)
Width(x, i) == IF i = 1 \/ x[i] # 0 THEN i ELSE Width(x, i - 1)

\* binary.PutUvarint: seven bits per byte, low bits first, 0x80 set on every
\* byte but the last.
PutUvarint(x) ==
    LET w == Width(x, MaxVarintLen64) IN
    [i \in 1..w |-> IF i < w THEN x[i] + 128 ELSE x[i]]

\* A length-prefixed payload.
PutString(b) == PutUvarint(U(Len(b))) \o b

\* A field list: (kind, offset) pairs, then End.  A kind is an int and is
\* written as uint64(kind), its two's-complement pattern.
RECURSIVE PutFields(_)
PutFields(fs) ==
    IF fs = <<>> THEN PutUvarint(U(fieldKindEol))
    ELSE PutUvarint(Head(fs).kind) \o PutUvarint(Head(fs).ptr) \o PutFields(Tail(fs))

PutObject(w) == PutUvarint(w.address) \o PutString(w.payload) \o PutFields(w.fields)

PutRoot(w) == PutString(w.description) \o PutUvarint(w.target)

PutType(w) ==
    PutUvarint(w.address) \o PutUvarint(w.size) \o PutString(w.name)
        \o PutUvarint(w.isPointerShaped)

PutGoroutine(w) ==
    PutUvarint(w.address) \o PutUvarint(w.currentFrame) \o PutUvarint(w.id)
        \o PutUvarint(w.secondaryId) \o PutUvarint(w.status)
        \o PutUvarint(w.systemOwned) \o PutUvarint(w.background)
        \o PutUvarint(w.start) \o PutString(w.waitReason)
        \o PutUvarint(w.contextAddr) \o PutUvarint(w.threadAddr)
        \o PutUvarint(w.deferChainAddr) \o PutUvarint(w.panicChainAddr)

PutStackFrame(w) ==
    PutUvarint(w.address) \o PutUvarint(w.depth) \o PutUvarint(w.childFrameAddr)
        \o PutString(w.payload) \o PutUvarint(w.entryPC) \o PutUvarint(w.currentPC)
        \o PutUvarint(w.continuationPC) \o PutString(w.functionName)
        \o PutFields(w.fields)


----------------------------------------------------------------------------
(* The stream framer.  src/main.go declares the record tags and the        *)
(* decoders but holds no loop that reads a tag and dispatches on it; the   *)
(* framer here follows the design document's state machine                 *)
(* (Start, Framed, Done, Error) and calls the decoders above.              *)

tagEOF == 0
tagObject == 1
tagOtherRoot == 2
tagType == 3
tagGoroutine == 4
tagStackFrame == 5
tagParams == 6
tagAllocSample == 17

ErrUnknownTag == "unknown tag"

Dispatch(t, s, p, bits) ==
    CASE t = U(tagObject) -> readObject(s, p, bits)
      [] t = U(tagOtherRoot) -> readOtherRoot(s, p, bits)
      [] t = U(tagType) -> readType(s, p, bits)
      [] t = U(tagGoroutine) -> readGoroutine(s, p, bits)
      [] t = U(tagStackFrame) -> readStackFrame(s, p, bits)

KnownTags == {U(tagObject), U(tagOtherRoot), U(tagType), U(tagGoroutine), U(tagStackFrame)}

\* Faulty variant of FramerStep: an unknown tag is skipped.
FramerStep_SkipsUnknown(s, p, bits) ==
    LET t == ReadUvarint(s, p) IN
    IF t.err = EOF
    THEN [pc |-> "Done", err |-> Nil, pos |-> t.pos, push |-> <<>>]
    ELSE IF t.err # Nil
    THEN [pc |-> "Error", err |-> t.err, pos |-> t.pos, push |-> <<>>]
    ELSE IF t.val = U(tagEOF)
    THEN [pc |-> "Done", err |-> Nil, pos |-> t.pos, push |-> <<>>]
    ELSE IF t.val \in KnownTags
    THEN LET r == Dispatch(t.val, s, t.pos, bits) IN
         IF r.err # Nil
         THEN [pc |-> "Error", err |-> r.err, pos |-> r.pos, push |-> <<>>]
         ELSE [pc |-> "Framed", err |-> Nil, pos |-> r.pos,
               push |-> <<[tag |-> t.val, rec |-> r.val]>>]
    ELSE [pc |-> "Framed", err |-> Nil, pos |-> t.pos, push |-> <<>>]

\* One turn of the framer's loop at position p: the next state, the error,
\* the new position and the records pushed.
FramerStep(s, p, bits) ==
    LET t == ReadUvarint(s, p) IN
    IF t.err = EOF
    THEN [pc |-> "Done", err |-> Nil, pos |-> t.pos, push |-> <<>>]
    ELSE IF t.err # Nil
    THEN [pc |-> "Error", err |-> t.err, pos |-> t.pos, push |-> <<>>]
    ELSE IF t.val = U(tagEOF)
    THEN [pc |-> "Done", err |-> Nil, pos |-> t.pos, push |-> <<>>]
    ELSE IF t.val \in KnownTags
    THEN LET r == Dispatch(t.val, s, t.pos, bits) IN
         IF r.err # Nil
         THEN [pc |-> "Error", err |-> r.err, pos |-> r.pos, push |-> <<>>]
         ELSE [pc |-> "Framed", err |-> Nil, pos |-> r.pos,
               push |-> <<[tag |-> t.val, rec |-> r.val]>>]
    ELSE [pc |-> "Error", err |-> ErrUnknownTag, pos |-> t.pos, push |-> <<>>]

\* A tagged record on the wire.
PutRecord(r) ==
    PutUvarint(r.tag) \o
    (CASE r.tag = U(tagObject) -> PutObject(r.w)
       [] r.tag = U(tagOtherRoot) -> PutRoot(r.w)
       [] r.tag = U(tagType) -> PutType(r.w)
       [] r.tag = U(tagGoroutine) -> PutGoroutine(r.w)
       [] r.tag = U(tagStackFrame) -> PutStackFrame(r.w))

RECURSIVE PutRecords(_)
PutRecords(rs) == IF rs = <<>> THEN <<>> ELSE PutRecord(Head(rs)) \o PutRecords(Tail(rs))

----------------------------------------------------------------------------
(* The inputs drawn.                                                       *)

IntSizes == {32, 64}

Bit31 == <<0, 0, 0, 0, 8, 0, 0, 0, 0, 0>>

StrBytes == {0, 200}
Strings(n) == UNION {[1..k -> StrBytes] : k \in 0..n}
\* 130 bytes: the length prefix takes two bytes.
LongString == [i \in 1..130 |-> 65]
\* "runtime.m0"
RuntimeM0 == <<114, 117, 110, 116, 105, 109, 101, 46, 109, 48>>

TrailBytes == {0, 129}
Trails == UNION {[1..k -> TrailBytes] : k \in 0..MaxTrail}

\* Fields as the program holds them: the kind is an int of the build.
Fields(bits) ==
    {[kind |-> ToInt(U(fieldKindPtr), bits), ptr |-> Zero],
     [kind |-> ToInt(U(fieldKindEface), bits), ptr |-> U(128)],
     [kind |-> ToInt(U(200), bits), ptr |-> One],
     [kind |-> ToInt(MaxUint64, bits), ptr |-> MaxUint64]}
FieldLists(n, bits) == UNION {[1..k -> Fields(bits)] : k \in 0..n}

Objects(bits) ==
    [address : {U(8192), MaxUint64},
     payload : Strings(MaxStrLen) \cup {<<1, 2, 3>>},
     fields : FieldLists(MaxFields, bits)]

Roots ==
    [description : Strings(MaxStrLen) \cup {RuntimeM0},
     target : {Zero, U(4096), MaxUint64}]

Types ==
    [address : {U(300)}, size : {U(16), Bit63},
     name : Strings(MaxStrLen),
     isPointerShaped : {Zero, One, U(2), U(128), MaxUint64}]

Goroutines ==
    {[address |-> U(1000), currentFrame |-> U(2000), id |-> U(3),
      secondaryId |-> U(4), status |-> st, systemOwned |-> sys,
      background |-> bg, start |-> sw[1], waitReason |-> sw[2],
      contextAddr |-> U(11), threadAddr |-> U(12),
      deferChainAddr |-> U(13), panicChainAddr |-> U(14)] :
        st \in {U(statusIdle), U(statusRunnable), U(statusWaiting), U(4),
                U(200), Bit31, Bit63, MaxUint64},
        sys \in {Zero, One, U(2), U(128)},
        bg \in {Zero, One, U(2), U(128)},
        sw \in {<<U(5), <<>>>>, <<U(1000000007), <<200>>>>,
                <<U(2000000009), <<0, 200>>>>}}

StackFrames(bits) ==
    [address : {U(500)}, depth : {Zero, U(2)}, childFrameAddr : {U(600)},
     payload : Strings(MaxStrLen),
     entryPC : {U(70)}, currentPC : {U(71)}, continuationPC : {U(129)},
     functionName : {<<>>, <<102, 0>>},
     fields : FieldLists(1, bits)]

Prefixes(e) == {SubSeq(e, 1, n) : n \in 0..Len(e)}

\* One byte of the header replaced, and every shorter or longer source.
Corrupted == {[header EXCEPT ![i] = b] : i \in {1, 8, 16}, b \in {0, 255}}
HeaderSources ==
    Prefixes(header) \cup {h \o t : h \in {header} \cup Corrupted, t \in Trails}
        \cup Prefixes([i \in 1..16 |-> 0])

----------------------------------------------------------------------------
(* The state machine: a caller holds a source and runs one decoder on it.  *)

Ready(m, w, s) ==
    /\ mode = m
    /\ want = w
    /\ src = s
    /\ pos = 0
    /\ pc = "ready"
    /\ ret = NilPtr
    /\ err = Nil
    /\ out = <<>>

InitHeader == \E s \in HeaderSources : Ready("header", <<>>, s)

InitString ==
    \E b \in Strings(MaxStrLen) \cup {LongString}, t \in Trails :
        \E s \in Prefixes(PutString(b) \o t) : Ready("string", b, s)

InitFieldlist ==
    \E fs \in FieldLists(MaxFields, intSize), t \in Trails :
        \E s \in Prefixes(PutFields(fs) \o t) : Ready("fieldlist", fs, s)

InitObject ==
    \E w \in Objects(intSize), t \in {<<>>, <<1>>} :
        \E s \in Prefixes(PutObject(w)) \cup {PutObject(w) \o t} :
            Ready("object", w, s)

InitOtherRoot ==
    \E w \in Roots, t \in Trails :
        \E s \in Prefixes(PutRoot(w) \o t) : Ready("root", w, s)

InitType ==
    \E w \in Types, t \in Trails :
        \E s \in Prefixes(PutType(w) \o t) : Ready("type", w, s)

InitGoroutine ==
    \E w \in Goroutines, t \in {<<>>, <<1>>} :
        \E s \in Prefixes(PutGoroutine(w)) \cup {PutGoroutine(w) \o t} :
            Ready("goroutine", w, s)

InitStackFrame ==
    \E w \in StackFrames(intSize), t \in {<<>>, <<1>>} :
        \E s \in Prefixes(PutStackFrame(w)) \cup {PutStackFrame(w) \o t} :
            Ready("frame", w, s)

Return(r) ==
    /\ pc' = "done"
    /\ ret' = r.val
    /\ err' = r.err
    /\ pos' = r.pos
    /\ UNCHANGED <<intSize, mode, want, src, out>>

CallReadHeader ==
    /\ mode = "header" /\ pc = "ready"
    /\ \E r \in {readHeader(src, pos)} :
       /\ pc' = "done"
       /\ err' = r.err
       /\ pos' = r.pos
       /\ UNCHANGED <<intSize, mode, want, src, ret, out>>

CallReadString ==
    /\ mode = "string" /\ pc = "ready"
    /\ \E r \in {readString(src, pos, intSize)} : Return(r)

CallReadFieldlist ==
    /\ mode = "fieldlist" /\ pc = "ready"
    /\ \E r \in {readFieldlist(src, pos, intSize)} : Return(r)

CallReadObject ==
    /\ mode = "object" /\ pc = "ready"
    /\ \E r \in {readObject(src, pos, intSize)} : Return(r)

CallReadOtherRoot ==
    /\ mode = "root" /\ pc = "ready"
    /\ \E r \in {readOtherRoot(src, pos, intSize)} : Return(r)

CallReadType ==
    /\ mode = "type" /\ pc = "ready"
    /\ \E r \in {readType(src, pos, intSize)} : Return(r)

CallReadGoroutine ==
    /\ mode = "goroutine" /\ pc = "ready"
    /\ \E r \in {readGoroutine(src, pos, intSize)} : Return(r)

CallReadStackFrame ==
    /\ mode = "frame" /\ pc = "ready"
    /\ \E r \in {readStackFrame(src, pos, intSize)} : Return(r)

\* Streams: the magic, up to MaxRecords records, and what follows them.
SampleRecords(bits) ==
    {[tag |-> U(tagObject),
      w |-> [address |-> U(8192), payload |-> <<1, 2, 3>>,
             fields |-> <<[kind |-> ToInt(U(fieldKindPtr), bits), ptr |-> Zero]>>]],
     [tag |-> U(tagOtherRoot), w |-> [description |-> RuntimeM0, target |-> U(4096)]],
     [tag |-> U(tagType),
      w |-> [address |-> U(300), size |-> U(16), name |-> <<200>>,
             isPointerShaped |-> One]],
     [tag |-> U(tagGoroutine),
      w |-> [address |-> U(1000), currentFrame |-> U(2000), id |-> U(3),
             secondaryId |-> U(4), status |-> U(statusWaiting),
             systemOwned |-> Zero, background |-> One, start |-> U(5),
             waitReason |-> <<200>>, contextAddr |-> U(11), threadAddr |-> U(12),
             deferChainAddr |-> U(13), panicChainAddr |-> U(14)]],
     [tag |-> U(tagStackFrame),
      w |-> [address |-> U(500), depth |-> Zero, childFrameAddr |-> U(600),
             payload |-> <<0>>, entryPC |-> U(70), currentPC |-> U(71),
             continuationPC |-> U(129), functionName |-> <<102>>,
             fields |-> <<>>]]}

UnknownTags == {U(tagParams), U(tagAllocSample), U(18), U(200), MaxUint64}
StreamTrails == {<<>>, <<0>>, <<2, 0, 0>>}

Tails ==
    {[kind |-> k, tag |-> Zero, trail |-> <<>>] : k \in {"exhausted", "cut"}}
        \cup {[kind |-> "eof", tag |-> U(tagEOF), trail |-> t] : t \in StreamTrails}
        \cup {[kind |-> "unknown", tag |-> u, trail |-> t] :
                u \in UnknownTags, t \in StreamTrails}

Streams(bits) ==
    [magic : {header, [header EXCEPT ![16] = 0], SubSeq(header, 1, 15)},
     recs : UNION {[1..k -> SampleRecords(bits)] : k \in 0..MaxRecords},
     tail : Tails]

\* The bytes of a stream: an "exhausted" stream ends after its last record,
\* a "cut" one lacks the last byte of that, the others go on with a tag and
\* the bytes after it.
PutStream(w) ==
    LET body == w.magic \o PutRecords(w.recs) IN
    CASE w.tail.kind = "exhausted" -> body
      [] w.tail.kind = "cut" -> SubSeq(body, 1, Len(body) - 1)
      [] OTHER -> body \o PutUvarint(w.tail.tag) \o w.tail.trail

InitStream ==
    \E w \in Streams(intSize) :
        /\ mode = "stream"
        /\ want = w
        /\ src = PutStream(w)
        /\ pos = 0
        /\ pc = "Start"
        /\ ret = NilPtr
        /\ err = Nil
        /\ out = <<>>

FramerStart ==
    /\ mode = "stream" /\ pc = "Start"
    /\ \E r \in {readHeader(src, pos)} :
       /\ pc' = IF r.err = Nil THEN "Framed" ELSE "Error"
       /\ err' = r.err
       /\ pos' = r.pos
       /\ UNCHANGED <<intSize, mode, want, src, ret, out>>

FramerNext ==
    /\ mode = "stream" /\ pc = "Framed"
    /\ \E r \in {FramerStep(src, pos, intSize)} :
       /\ pc' = r.pc
       /\ err' = r.err
       /\ pos' = r.pos
       /\ out' = out \o r.push
       /\ UNCHANGED <<intSize, mode, want, src, ret>>

Init ==
    /\ intSize \in IntSizes
    /\ \/ InitHeader
       \/ InitString
       \/ InitFieldlist
       \/ InitObject
       \/ InitOtherRoot
       \/ InitType
       \/ InitGoroutine
       \/ InitStackFrame
       \/ InitStream

Next ==
    \/ CallReadHeader
    \/ CallReadString
    \/ CallReadFieldlist
    \/ CallReadObject
    \/ CallReadOtherRoot
    \/ CallReadType
    \/ CallReadGoroutine
    \/ CallReadStackFrame
    \/ FramerStart
    \/ FramerNext

Spec == Init /\ [][Next]_vars

----------------------------------------------------------------------------
(* Properties.                                                             *)

\* The source starts with the whole of encoding e / is a strict prefix of e.
Whole(e) == Len(src) >= Len(e) /\ SubSeq(src, 1, Len(e)) = e
StrictPrefix(e) == Len(src) < Len(e) /\ SubSeq(e, 1, Len(src)) = src

Truncated == {EOF, ErrUnexpectedEOF}
RecordModes == {"object", "root", "type", "goroutine", "frame"}

RecordWire ==
    CASE mode = "object" -> PutObject(want)
      [] mode = "root" -> PutRoot(want)
      [] mode = "type" -> PutType(want)
      [] mode = "goroutine" -> PutGoroutine(want)
      [] mode = "frame" -> PutStackFrame(want)

\* An int k holds the number the uint64 x holds.
NumEq(k, x) == k = x /\ ~IsNegative(k)

\* C1: readHeader fails with a truncation error whenever the source holds
\* fewer than 16 bytes; it never succeeds on a header it could not read.
C1_ShortHeaderFails ==
    (mode = "header" /\ pc = "done" /\ Len(src) < Len(header))
        => err \in Truncated

\* C2: on a source of at least 16 bytes readHeader succeeds exactly when the
\* first 16 bytes are the magic, fails with "invalid heapdump" otherwise, and
\* consumes exactly 16 bytes either way.
C2_HeaderCompared ==
    (mode = "header" /\ pc = "done" /\ Len(src) >= Len(header))
        => /\ (err = Nil) <=> (SubSeq(src, 1, Len(header)) = header)
           /\ err \in {Nil, ErrInvalid}
           /\ pos = Len(header)

C2_Witness ==
    /\ mode = "header" /\ pc = "done"
    /\ Len(src) > Len(header)
    /\ src[16] # header[16]
    /\ SubSeq(src, 1, 15) = SubSeq(header, 1, 15)
    /\ err = ErrInvalid

\* C3: in a decoded goroutine isSys is true exactly when its raw value is 1,
\* and isBackground is true exactly when its raw value is 1.
C3_FlagsTrueOnOne ==
    (mode = "goroutine" /\ pc = "done" /\ err = Nil)
        => /\ ret.isSys = (want.systemOwned = One)
           /\ ret.isBackground = (want.background = One)

\* C4: in a decoded type isPtr is true exactly when its raw value is
\* nonzero.
C4_IsPtrNonzero ==
    (mode = "type" /\ pc = "done" /\ err = Nil)
        => ret.isPtr = (want.isPointerShaped # Zero)

C4_Witness ==
    /\ mode = "type" /\ pc = "done" /\ err = Nil
    /\ want.isPointerShaped = U(2)
    /\ ret.isPtr

C6_StringRoundTrip ==
    (mode = "string" /\ pc = "done" /\ Whole(PutString(want)))
        => /\ err = Nil
           /\ ret = want
           /\ pos = Len(PutString(want))

C6_Witness ==
    /\ mode = "string" /\ pc = "done" /\ err = Nil
    /\ Len(want) > 127
    /\ ret = want
    /\ Len(src) > pos

\* C7: a record decoder run on a strict prefix of a record's encoding fails
\* with a truncation error, and a decoder that returns an error returns no
\* record.
C7_TruncatedRecordFails ==
    (mode \in RecordModes /\ pc = "done")
        => /\ err # Nil => ret = NilPtr
           /\ StrictPrefix(RecordWire) => (err \in Truncated /\ ret = NilPtr)

C7_Witness ==
    /\ mode = "frame" /\ pc = "done"
    /\ StrictPrefix(RecordWire)
    /\ Len(src) = Len(RecordWire) - 1
    /\ want.fields # <<>>
    /\ pos = Len(src)
    /\ err = EOF
    /\ ret = NilPtr

\* The position right after the unknown tag of a stream.
TagEnd == Len(want.magic \o PutRecords(want.recs) \o PutUvarint(want.tail.tag))

\* C8: a stream with a tag outside 0..5 after its records ends in Error with
\* the unknown-tag error at that tag: every record before it was pushed, no
\* byte after the tag is ever read, and nothing more happens.
C8_UnknownTagRejected ==
    (mode = "stream" /\ want.magic = header /\ want.tail.kind = "unknown")
        => /\ pos <= TagEnd
           /\ Len(out) <= Len(want.recs)
           /\ pc \in {"Done", "Error"}
                => /\ pc = "Error"
                   /\ err = ErrUnknownTag
                   /\ pos = TagEnd
                   /\ Len(out) = Len(want.recs)
                   /\ ~ENABLED Next

C8_Witness ==
    /\ mode = "stream" /\ pc = "Error" /\ err = ErrUnknownTag
    /\ want.tail.tag = U(tagAllocSample)
    /\ Len(out) = MaxRecords
    /\ Len(src) > pos

\* The value of a uint64 below 2^31.
Nat31(x) == ToNat(x) + 268435456 * x[5]

\* The raw flag that is 1 when v is not, and not 1 when v is.
Flip(v) == IF v = One THEN Zero ELSE One

C9_Object ==
    (mode = "object" /\ pc = "done" /\ Whole(PutObject(want)))
        => /\ err = Nil
           /\ ret.addr = want.address
           /\ ret.contents = want.payload
           /\ ret.fields = Slice(want.fields)
           /\ pos = Len(PutObject(want))

C9_Root ==
    (mode = "root" /\ pc = "done" /\ Whole(PutRoot(want)))
        => /\ err = Nil
           /\ ret.descr = want.description
           /\ ret.ptr = want.target
           /\ pos = Len(PutRoot(want))

C9_Type ==
    (mode = "type" /\ pc = "done" /\ Whole(PutType(want)))
        => /\ err = Nil
           /\ ret.addr = want.address
           /\ ret.size = want.size
           /\ ret.name = want.name
           /\ want.isPointerShaped = Zero => ~ret.isPtr
           /\ want.isPointerShaped = One => ret.isPtr
           /\ pos = Len(PutType(want))

\* The two flags: each follows its own raw value and not the other's, which
\* is what the decodings of the same record with one raw flag flipped show.
C9_Goroutine ==
    (mode = "goroutine" /\ pc = "done" /\ Whole(PutGoroutine(want)))
        => /\ err = Nil
           /\ ret.addr = want.address
           /\ ret.rframe = want.currentFrame
           /\ ret.id = want.id
           /\ ret.stmt = want.secondaryId
           /\ Fits(want.status) => NumEq(ret.status, want.status)
           /\ LET sys == readGoroutine(
                      PutGoroutine([want EXCEPT !.systemOwned = Flip(@)]), 0, intSize).val
                  bg == readGoroutine(
                      PutGoroutine([want EXCEPT !.background = Flip(@)]), 0, intSize).val
              IN  /\ sys.isSys # ret.isSys
                  /\ sys.isBackground = ret.isBackground
                  /\ bg.isBackground # ret.isBackground
                  /\ bg.isSys = ret.isSys
           /\ Fits(ret.started.sec)
           /\ ToNat(ret.started.sec) * Second + ret.started.nsec = Nat31(want.start)
           /\ ret.started.nsec < Second
           /\ ret.waitReason = want.waitReason
           /\ ret.ctx = want.contextAddr
           /\ ret.MThread = want.threadAddr
           /\ ret.dfer = want.deferChainAddr
           /\ ret.pnic = want.panicChainAddr
           /\ pos = Len(PutGoroutine(want))

C9_StackFrame ==
    (mode = "frame" /\ pc = "done" /\ Whole(PutStackFrame(want)))
        => /\ err = Nil
           /\ ret.ptr = want.address
           /\ ret.depth = want.depth
           /\ ret.childPtr = want.childFrameAddr
           /\ ret.content = want.payload
           /\ ret.startPC = want.entryPC
           /\ ret.currentPC = want.currentPC
           /\ ret.continuePC = want.continuationPC
           /\ ret.name = want.functionName
           /\ ret.fields = Slice(want.fields)
           /\ pos = Len(PutStackFrame(want))

\* C9: every record decoder reads its wire fields in the documented order
\* and stores the k-th value read in the k-th field, none skipped, read
\* twice or swapped.
C9_FieldOrder ==
    /\ C9_Object
    /\ C9_Root
    /\ C9_Type
    /\ C9_Goroutine
    /\ C9_StackFrame

C9_Witness ==
    /\ mode = "goroutine" /\ pc = "done" /\ err = Nil
    /\ want.start = U(1000000007)
    /\ ret.started = [sec |-> One, nsec |-> 7]
    /\ want.systemOwned # want.background
    /\ Len(src) > pos

\* C10: readGoroutine accepts every raw status value s and the status field
\* then holds s itself.
C10_StatusPreserved ==
    (mode = "goroutine" /\ pc = "done" /\ Whole(PutGoroutine(want)))
        => /\ err = Nil
           /\ NumEq(ret.status, want.status)

====
